---- MODULE Spec2Model ----
(***************************************************************************)
(* Model of pyallocopt: the GRT fixed-point codec (allocopt/grt_utils.py)  *)
(* and the allocation orchestration (allocopt/allocopt.py).                *)
(*                                                                         *)
(* A Decimal is the triple Python's decimal module keeps: a sign, a        *)
(* coefficient written as a string of decimal digits, and an exponent.     *)
(* Coefficients are sequences of digits, most significant first, so that   *)
(* 78-digit values (the whole 256 bit range) are computed digit by digit   *)
(* exactly as the arithmetic of the General Decimal Arithmetic             *)
(* specification prescribes; no machine integer ever holds a coefficient.  *)
(***************************************************************************)
EXTENDS Integers, Sequences, FiniteSets, TLC

VARIABLES
    \* ---- codec, one caller (grt_utils.py) ----
    cAmbient,     \* the caller's own decimal context: [prec, rounding]
    cIn,          \* the argument of the call: a wei integer or a Decimal
    cRounding,    \* the rounding argument of grt_decimal_to_wei
    cDec,         \* the Decimal grt_wei_to_decimal returned (or NoValue)
    cOut,         \* what grt_decimal_to_wei returned or raised (or NoValue)
    cPhase,       \* "init", "decimal", "done"
    \* ---- codec, threads and contexts (grt_utils.py) ----
    ctxStore,     \* context object -> its settings [prec, rounding]
    current,      \* thread -> the context object current for that thread
    frames,       \* thread -> stack of the open codec calls of that thread
    lastCall,     \* the codec call that ended last: its thread and outcome
    \* ---- allocopt (allocopt.py) ----
    pc,           \* position of the call of allocopt
    stake,        \* availablestake(Val(:indexer), i)
    frozenStake,  \* frozen(a, config)
    pinnedvec,    \* pinned(fs, config): target -> pinned stake
    sigma,        \* the budget left for the optimizer
    optOut,       \* what optimize returned: [xs, nonzeros, profit]
    xs,           \* the allocation matrix after the pinned stake is added
    strategies,   \* what opt_fun returned
    res,          \* the mapping allocopt returned (or NoValue)
    err,          \* the error that ended the call ("" when none)
    optimizeCalls \* how many times optimize was invoked in this call

codecVars == <<cAmbient, cIn, cRounding, cDec, cOut, cPhase>>
ctxVars   == <<ctxStore, current, frames, lastCall>>
allocVars == <<pc, stake, frozenStake, pinnedvec, sigma, optOut, xs,
               strategies, res, err, optimizeCalls>>
vars      == <<codecVars, ctxVars, allocVars>>

NoValue == [none |-> TRUE]

(***************************************************************************)
(* Digit strings                                                           *)
(***************************************************************************)
\* d repeated k times: '0' * k
Rep(d, k) == [i \in 1..k |-> d]

\* the first k digits of s: s[:k]
Take(s, k) == SubSeq(s, 1, k)

\* s[k:], the digits after the first k
Drop(s, k) == SubSeq(s, k + 1, Len(s))

\* the decimal digits of a machine-sized natural: str(n)
RECURSIVE ToDigits(_)
ToDigits(n) == IF n < 10 THEN <<n>> ELSE Append(ToDigits(n \div 10), n % 10)

\* the value of a short digit string: int(s)
RECURSIVE FromDigits(_)
FromDigits(s) ==
    IF Len(s) = 0 THEN 0
    ELSE 10 * FromDigits(Take(s, Len(s) - 1)) + s[Len(s)]

\* str(int(s)): leading zeros removed, "0" for zero
RECURSIVE Normalize(_)
Normalize(s) ==
    IF Len(s) = 0 THEN <<0>>
    ELSE IF Len(s) > 1 /\ s[1] = 0 THEN Normalize(Tail(s))
    ELSE s

\* str(int(s) + 1)
RECURSIVE Incr(_)
Incr(s) ==
    IF Len(s) = 0 THEN <<1>>
    ELSE IF s[Len(s)] < 9 THEN Append(Take(s, Len(s) - 1), s[Len(s)] + 1)
    ELSE Append(Incr(Take(s, Len(s) - 1)), 0)

IsZeroDigits(s) == \A i \in 1..Len(s) : s[i] = 0

\* _all_zeros(val, i): every digit after the first i is 0
AllZeros(s, i) == \A j \in (i + 1)..Len(s) : s[j] = 0

\* _exact_half(val, i): the digits after the first i are 5000...
ExactHalf(s, i) ==
    /\ Len(s) > i
    /\ s[i + 1] = 5
    /\ \A j \in (i + 2)..Len(s) : s[j] = 0

\* the number of trailing zeros of s
RECURSIVE TrailingZeros(_)
TrailingZeros(s) ==
    IF Len(s) = 0 \/ s[Len(s)] # 0 THEN 0
    ELSE 1 + TrailingZeros(Take(s, Len(s) - 1))

Min(a, b) == IF a < b THEN a ELSE b
Max(a, b) == IF a > b THEN a ELSE b

(***************************************************************************)
(* Decimals and contexts                                                   *)
(***************************************************************************)
RoundingModes ==
    {"ROUND_HALF_EVEN", "ROUND_DOWN", "ROUND_UP", "ROUND_HALF_UP",
     "ROUND_HALF_DOWN", "ROUND_CEILING", "ROUND_FLOOR", "ROUND_05UP"}

\* a finite Decimal: (-1)^sign * int * 10^exp
Dec(sign, int, exp) == [special |-> "", sign |-> sign, int |-> int, exp |-> exp]
DecNaN == [special |-> "NaN", sign |-> 0, int |-> <<0>>, exp |-> 0]

\* an operation either returns a value or raises an exception
Returned(v) == [raised |-> "", val |-> v]
Raised(e) == [raised |-> e, val |-> NoValue]

\* Decimal(n) for an integer n >= 0 given by its digits: exact, any length
DecimalOfInt(digits) == Dec(0, digits, 0)

\* the rounding functions: -1, 0 or 1 for a coefficient cut to its first
\* prec digits (1: the cut coefficient is to be incremented)
RoundDown(int, prec) == IF AllZeros(int, prec) THEN 0 ELSE -1
RoundUp(int, prec) == -RoundDown(int, prec)
RoundHalfUp(int, prec) ==
    IF int[prec + 1] \in 5..9 THEN 1
    ELSE IF AllZeros(int, prec) THEN 0 ELSE -1
RoundHalfDown(int, prec) ==
    IF ExactHalf(int, prec) THEN -1 ELSE RoundHalfUp(int, prec)
RoundHalfEven(int, prec) ==
    IF ExactHalf(int, prec) /\ (prec = 0 \/ int[prec] % 2 = 0) THEN -1
    ELSE RoundHalfUp(int, prec)
RoundCeiling(sign, int, prec) ==
    IF sign = 1 THEN RoundDown(int, prec) ELSE -RoundDown(int, prec)
RoundFloor(sign, int, prec) ==
    IF sign = 0 THEN RoundDown(int, prec) ELSE -RoundDown(int, prec)
Round05Up(int, prec) ==
    IF prec > 0 /\ int[prec] \notin {0, 5} THEN RoundDown(int, prec)
    ELSE -RoundDown(int, prec)

\* _pick_rounding_function[rounding](self, prec)
PickRounding(rounding, sign, int, prec) ==
    CASE rounding = "ROUND_DOWN" -> RoundDown(int, prec)
      [] rounding = "ROUND_UP" -> RoundUp(int, prec)
      [] rounding = "ROUND_HALF_UP" -> RoundHalfUp(int, prec)
      [] rounding = "ROUND_HALF_DOWN" -> RoundHalfDown(int, prec)
      [] rounding = "ROUND_HALF_EVEN" -> RoundHalfEven(int, prec)
      [] rounding = "ROUND_CEILING" -> RoundCeiling(sign, int, prec)
      [] rounding = "ROUND_FLOOR" -> RoundFloor(sign, int, prec)
      [] rounding = "ROUND_05UP" -> Round05Up(int, prec)

\* d cut to `digits` digits of coefficient at exponent exp, rounded by
\* `rounding`. A d smaller than one unit of 10^exp rounds as 10^(exp-1).
RoundTo(d, digits, exp, rounding) ==
    LET int == IF digits < 0 THEN <<1>> ELSE d.int
        n == IF digits < 0 THEN 0 ELSE digits
        changed == PickRounding(rounding, d.sign, int, n)
        cut == IF n = 0 THEN <<0>> ELSE Take(int, n)
        coeff == IF changed = 1 THEN Incr(cut) ELSE cut
    IN  Dec(d.sign, coeff, exp)

\* Decimal._rescale(exp, rounding): d at exponent exp
Rescale(d, exp, rounding) ==
    IF IsZeroDigits(d.int) THEN Dec(d.sign, <<0>>, exp)
    ELSE IF d.exp >= exp THEN Dec(d.sign, d.int \o Rep(0, d.exp - exp), exp)
    ELSE RoundTo(d, Len(d.int) + d.exp - exp, exp, rounding)

\* Decimal._fix(context): d rounded to the precision of ctx (the exponent
\* limits Emin and Emax of ctx, 999999 away, are out of reach of the model)
Fix(d, ctx) ==
    IF d.special # "" \/ IsZeroDigits(d.int) THEN d
    ELSE
        LET expMin == Len(d.int) + d.exp - ctx.prec
        IN  IF d.exp >= expMin THEN d
            ELSE
                LET r == RoundTo(d, Len(d.int) + d.exp - expMin, expMin,
                                 ctx.rounding)
                IN  IF Len(r.int) > ctx.prec
                    THEN Dec(r.sign, Take(r.int, Len(r.int) - 1), expMin + 1)
                    ELSE r

\* Decimal.__truediv__(d, f) under ctx, for a divisor f that is a power of
\* ten (coefficient 1 followed by zeros), which _GRT_DECIMAL_FACTOR is: the
\* division d.int * 10^shift by f.int drops digits
TrueDiv(d, f, ctx) ==
    IF IsZeroDigits(d.int) THEN Fix(Dec(d.sign, <<0>>, d.exp - f.exp), ctx)
    ELSE
        LET shift == Len(f.int) - Len(d.int) + ctx.prec + 1
            exp == d.exp - f.exp - shift
            num == IF shift >= 0 THEN d.int \o Rep(0, shift) ELSE d.int
            cut == (Len(f.int) - 1) + (IF shift >= 0 THEN 0 ELSE -shift)
            keep == Max(Len(num) - cut, 0)
            quot == IF keep = 0 THEN <<0>> ELSE Take(num, keep)
            exact == AllZeros(num, keep)
            idealExp == d.exp - f.exp
            strip == Min(TrailingZeros(quot), Max(idealExp - exp, 0))
        IN  IF exact
            THEN Fix(Dec(d.sign, Take(quot, Len(quot) - strip), exp + strip),
                     ctx)
            ELSE Fix(Dec(d.sign,
                         IF quot[Len(quot)] \in {0, 5} THEN Incr(quot)
                         ELSE quot,
                         exp), ctx)

\* Decimal.__mul__(d, f) under ctx, for a factor f that is a power of ten:
\* the product of the coefficients appends the zeros of f
Mul(d, f, ctx) ==
    IF d.special = "NaN" THEN d
    ELSE IF d.special = "Inf" THEN d
    ELSE IF IsZeroDigits(d.int) THEN Fix(Dec(d.sign, <<0>>, d.exp + f.exp), ctx)
    ELSE Fix(Dec(d.sign, d.int \o Rep(0, Len(f.int) - 1), d.exp + f.exp), ctx)

\* Decimal.quantize(d, e, rounding=rounding) under ctx. A rounding that is
\* no rounding mode is a TypeError; None is the rounding of ctx; a result
\* of more than ctx.prec digits is an InvalidOperation, which ctx traps.
Quantize(d, e, rounding, ctx) ==
    IF rounding # "None" /\ rounding \notin RoundingModes
    THEN Raised("TypeError")
    ELSE IF d.special = "NaN" THEN Returned(d)
    ELSE IF d.special = "Inf" THEN Raised("InvalidOperation")
    ELSE IF IsZeroDigits(d.int) THEN Returned(Dec(d.sign, <<0>>, e.exp))
    ELSE IF (d.exp + Len(d.int) - 1) - e.exp + 1 > ctx.prec
    THEN Raised("InvalidOperation")
    ELSE
        LET r == IF rounding = "None" THEN ctx.rounding ELSE rounding
            ans == Rescale(d, e.exp, r)
        IN  IF Len(ans.int) > ctx.prec THEN Raised("InvalidOperation")
            ELSE Returned(Fix(ans, ctx))

\* a Python int: its sign and the digits of its magnitude
IntVal(neg, digits) == [neg |-> neg, digits |-> digits]

\* Decimal.__int__(d): d truncated to an integer
IntOfDecimal(d) ==
    IF d.special = "NaN" THEN Raised("ValueError")
    ELSE IF d.special = "Inf" THEN Raised("OverflowError")
    ELSE
        LET digits == IF d.exp >= 0 THEN Normalize(d.int \o Rep(0, d.exp))
                      ELSE IF Len(d.int) + d.exp <= 0 THEN <<0>>
                      ELSE Normalize(Take(d.int, Len(d.int) + d.exp))
        IN  Returned(IntVal(d.sign = 1 /\ ~IsZeroDigits(digits), digits))

(***************************************************************************)
(* grt_utils.py                                                            *)
(***************************************************************************)
\* mutant: the context left at the default precision of 28 digits
GrtContextDefaultPrec == [prec |-> 28, rounding |-> "ROUND_HALF_EVEN"]

\* Context(prec=78): the rounding is the default one, ROUND_HALF_EVEN
_GRT_DECIMAL_CONTEXT == [prec |-> 78, rounding |-> "ROUND_HALF_EVEN"]

_GRT_DECIMALS == 18

\* Decimal(10) ** _GRT_DECIMALS: 1 followed by 18 zeros
_GRT_DECIMAL_FACTOR == Dec(0, <<1>> \o Rep(0, _GRT_DECIMALS), 0)

\* 1 / _GRT_DECIMAL_FACTOR, the quantum of grt_decimal_to_wei
GrtQuantum(ctx) == TrueDiv(DecimalOfInt(<<1>>), _GRT_DECIMAL_FACTOR, ctx)

\* the context the body of `with _grt_decimal_context():` runs under, for a
\* caller whose current context is `ambient`: setcontext(_GRT_DECIMAL_CONTEXT)
EnteredContext(ambient) == _GRT_DECIMAL_CONTEXT

\* the body of grt_wei_to_decimal under the current context ctx
WeiToDecimalBody(grt_wei, ctx) ==
    TrueDiv(DecimalOfInt(grt_wei), _GRT_DECIMAL_FACTOR, ctx)

\* the body of grt_decimal_to_wei under the current context ctx
DecimalToWeiBody(grt_decimal, rounding, ctx) ==
    LET q == Quantize(grt_decimal, GrtQuantum(ctx), rounding, ctx)
    IN  IF q.raised # "" THEN q
        ELSE IntOfDecimal(Mul(q.val, _GRT_DECIMAL_FACTOR, ctx))

\* grt_wei_to_decimal(grt_wei), called under the context `ambient`
grt_wei_to_decimal(grt_wei, ambient) ==
    WeiToDecimalBody(grt_wei, EnteredContext(ambient))

\* mutant: the rounding argument is not handed to quantize
DecimalToWeiRoundingDropped(grt_decimal, rounding, ambient) ==
    DecimalToWeiBody(grt_decimal,
                     IF rounding \in RoundingModes THEN "None" ELSE rounding,
                     EnteredContext(ambient))

\* grt_decimal_to_wei(grt_decimal, rounding), called under `ambient`
grt_decimal_to_wei(grt_decimal, rounding, ambient) ==
    DecimalToWeiBody(grt_decimal, rounding, EnteredContext(ambient))

(***************************************************************************)
(* The codec called by one caller                                          *)
(***************************************************************************)
\* str(2 ** 256 - 1), the largest 256 bit value, of 78 digits:
\* 115792089237316195423570985008687907853269984665640564039457584007913129639935
Uint256Max ==
    <<1, 1, 5, 7, 9, 2, 0, 8, 9, 2, 3, 7, 3, 1, 6, 1, 9, 5, 4, 2,
      3, 5, 7, 0, 9, 8, 5, 0, 0, 8, 6, 8, 7, 9, 0, 7, 8, 5, 3, 2,
      6, 9, 9, 8, 4, 6, 6, 5, 6, 4, 0, 5, 6, 4, 0, 3, 9, 4, 5, 7,
      5, 8, 4, 0, 0, 7, 9, 1, 3, 1, 2, 9, 6, 3, 9, 9, 3, 5>>

\* int(a) <= int(b) for digit strings without leading zeros
RECURSIVE DigitsLeq(_, _)
DigitsLeq(a, b) ==
    IF Len(a) # Len(b) THEN Len(a) < Len(b)
    ELSE IF Len(a) = 0 THEN TRUE
    ELSE IF a[1] # b[1] THEN a[1] < b[1]
    ELSE DigitsLeq(Tail(a), Tail(b))

\* the bounds of the inputs
MaxHead == 12
MaxTail == 26

\* wei amounts: a short head followed by a run of 0s or of 9s, up to 79
\* digits, and 2 ** 256 - 1
WeiPadLens == {0, 1, 17, 18, 19, 60, 76, 77, 78}
WeiInputs ==
    {w \in {Normalize(ToDigits(h) \o Rep(f, k)) :
                h \in 0..MaxHead, f \in {0, 9}, k \in WeiPadLens} :
        Len(w) <= 79}
    \cup {Uint256Max}

\* decimal amounts: a run of 1s or of 9s followed by a short tail, at an
\* exponent around the quantum 10^-18, of either sign
AmountHeadLens == {0, 1, 76, 77, 78}
AmountExps == {-20, -19, -18, 0}
AmountInputs ==
    {Dec(sg, Normalize(Rep(f, k) \o ToDigits(t)), e) :
        sg \in {0, 1}, f \in {1, 9}, k \in AmountHeadLens,
        t \in 0..MaxTail, e \in AmountExps}

\* the rounding arguments: a rounding mode, None, or no rounding mode at all
RoundingArgs == RoundingModes \cup {"None", "ROUND_BOGUS"}

\* the contexts a caller may have made current
AmbientContexts ==
    {[prec |-> 28, rounding |-> "ROUND_HALF_EVEN"],
     [prec |-> 9, rounding |-> "ROUND_DOWN"],
     [prec |-> 78, rounding |-> "ROUND_UP"]}

InitCodec ==
    /\ cAmbient \in AmbientContexts
    /\ cIn \in {[kind |-> "wei", wei |-> w, dec |-> NoValue] : w \in WeiInputs}
          \cup {[kind |-> "dec", wei |-> <<>>, dec |-> a] : a \in AmountInputs}
    /\ cRounding \in RoundingArgs
    /\ cDec = NoValue
    /\ cOut = NoValue
    /\ cPhase = "init"
    \* the threads and allocopt are not part of this specification
    /\ ctxStore = <<>>
    /\ current = <<>>
    /\ frames = <<>>
    /\ lastCall = NoValue
    /\ pc = "idle"
    /\ stake = 0
    /\ frozenStake = 0
    /\ pinnedvec = <<>>
    /\ sigma = 0
    /\ optOut = NoValue
    /\ xs = <<>>
    /\ strategies = <<>>
    /\ res = NoValue
    /\ err = ""
    /\ optimizeCalls = 0

\* the caller calls grt_wei_to_decimal(cIn.wei)
CallWeiToDecimal ==
    /\ cPhase = "init"
    /\ cIn.kind = "wei"
    /\ cDec' = grt_wei_to_decimal(cIn.wei, cAmbient)
    /\ cPhase' = "decimal"
    /\ UNCHANGED <<cAmbient, cIn, cRounding, cOut>>

\* the caller calls grt_decimal_to_wei on the Decimal it holds
CallDecimalToWei ==
    /\ \/ cPhase = "decimal"
       \/ cPhase = "init" /\ cIn.kind = "dec"
    /\ cOut' = grt_decimal_to_wei(IF cPhase = "decimal" THEN cDec ELSE cIn.dec,
                                  cRounding, cAmbient)
    /\ cPhase' = "done"
    /\ UNCHANGED <<cAmbient, cIn, cRounding, cDec>>

NextCodec ==
    \/ CallWeiToDecimal /\ UNCHANGED <<ctxVars, allocVars>>
    \/ CallDecimalToWei /\ UNCHANGED <<ctxVars, allocVars>>

SpecCodec == InitCodec /\ [][NextCodec]_vars

(***************************************************************************)
(* Claims about the codec                                                  *)
(***************************************************************************)
\* the value of a finite Decimal in wei, when it is a whole number of wei:
\* the digits of int * 10^(exp + 18)
WholeWei(d) == Normalize(d.int \o Rep(0, d.exp + _GRT_DECIMALS))

\* a * 10^18 rounded to an integer under `mode`, from the definition of the
\* mode: q is the whole part of |a| in wei, tail / unit its fraction
RoundedWei(a, mode) ==
    IF a.exp >= -_GRT_DECIMALS THEN IntVal(a.sign = 1 /\ ~IsZeroDigits(a.int),
                                           WholeWei(a))
    ELSE
        LET k == -_GRT_DECIMALS - a.exp
            q == IF Len(a.int) > k THEN Take(a.int, Len(a.int) - k) ELSE <<0>>
            tail == FromDigits(Drop(a.int, Max(Len(a.int) - k, 0)))
            unit == FromDigits(<<1>> \o Rep(0, k))
            up == CASE mode = "ROUND_DOWN" -> FALSE
                    [] mode = "ROUND_UP" -> tail > 0
                    [] mode = "ROUND_HALF_UP" -> 2 * tail >= unit
                    [] mode = "ROUND_HALF_EVEN" ->
                           \/ 2 * tail > unit
                           \/ 2 * tail = unit /\ q[Len(q)] % 2 = 1
            m == IF up THEN Incr(q) ELSE q
        IN  IntVal(a.sign = 1 /\ ~IsZeroDigits(m), m)

ExplicitModes == {"ROUND_HALF_EVEN", "ROUND_DOWN", "ROUND_UP", "ROUND_HALF_UP"}

\* the quantized form of a under `mode` fits in 78 digits
Fits78(a, mode) == Len(RoundedWei(a, mode).digits) <= 78

\* C1: for every integer w with 0 <= w <= 2^256 - 1 and every rounding mode
\* (and the default one), grt_wei_to_decimal(w) is exactly w / 10^18 and
\* grt_decimal_to_wei of it is w again, whatever the caller's own context.
C1_RoundTrip ==
    (cIn.kind = "wei" /\ DigitsLeq(cIn.wei, Uint256Max)) =>
        /\ cPhase \in {"decimal", "done"} =>
               /\ cDec.special = "" /\ cDec.sign = 0
               /\ cDec.exp >= -_GRT_DECIMALS
               /\ WholeWei(cDec) = cIn.wei
        /\ (cPhase = "done" /\ cRounding \in RoundingModes \cup {"None"}) =>
               cOut = Returned(IntVal(FALSE, cIn.wei))

\* 2^256 - 1 has made the round trip
C1_Witness ==
    /\ cPhase = "done"
    /\ cIn.kind = "wei"
    /\ cIn.wei = Uint256Max
    /\ cRounding = "ROUND_DOWN"
    /\ cOut = Returned(IntVal(FALSE, Uint256Max))

\* C3 (as claimed): without a rounding argument grt_decimal_to_wei rounds to
\* 18 places under the rounding mode of the caller's current context.
C3_AmbientRounding ==
    (/\ cPhase = "done"
     /\ cIn.kind = "dec"
     /\ cRounding = "None"
     /\ cAmbient.rounding \in ExplicitModes
     /\ Fits78(cIn.dec, cAmbient.rounding)) =>
        cOut = Returned(RoundedWei(cIn.dec, cAmbient.rounding))

\* C4: for an explicit rounding mode among half-even, down, up and half-up
\* and an amount whose quantized form fits in 78 digits,
\* grt_decimal_to_wei(a, mode) is a * 10^18 rounded to an integer under
\* that mode, whatever the caller's own context.
C4_ExplicitRounding ==
    (/\ cPhase = "done"
     /\ cIn.kind = "dec"
     /\ cRounding \in ExplicitModes
     /\ Fits78(cIn.dec, cRounding)) =>
        cOut = Returned(RoundedWei(cIn.dec, cRounding))

\* -2.5 wei rounded half-even to -2 wei under a caller's context that
\* rounds up
C4_Witness ==
    /\ cPhase = "done"
    /\ cIn.kind = "dec"
    /\ cIn.dec = Dec(1, <<2, 5>>, -19)
    /\ cRounding = "ROUND_HALF_EVEN"
    /\ cAmbient.rounding = "ROUND_UP"
    /\ cOut = Returned(IntVal(TRUE, <<2>>))

(***************************************************************************)
(* The codec called by threads: the decimal contexts                       *)
(*                                                                         *)
(* A context is an object: ctxStore maps it to its settings. Each thread   *)
(* has a current context of its own (getcontext and setcontext are         *)
(* thread-local); _GRT_DECIMAL_CONTEXT is one object, shared by every      *)
(* call of every thread.                                                   *)
(***************************************************************************)
Threads == {1, 2}

\* the context objects: _GRT_DECIMAL_CONTEXT, and the context each thread
\* starts with
GrtCtxId == 0
CtxIds == {GrtCtxId} \cup Threads

\* how deep codec calls nest within one thread
MaxDepth == 2

\* the settings a thread gives its own context
UserSettings ==
    {[prec |-> 28, rounding |-> "ROUND_HALF_EVEN"],
     [prec |-> 9, rounding |-> "ROUND_DOWN"]}

\* the codec calls a thread makes: one that returns, one with a rounding
\* that is no rounding mode (TypeError), one with an amount whose quantized
\* form has 79 digits (InvalidOperation)
CtxCalls ==
    {[op |-> "grt_wei_to_decimal", wei |-> Uint256Max, dec |-> NoValue,
      rounding |-> "None"],
     [op |-> "grt_decimal_to_wei", wei |-> <<>>, dec |-> Dec(0, <<1, 5>>, -19),
      rounding |-> "ROUND_BOGUS"],
     [op |-> "grt_decimal_to_wei", wei |-> <<>>, dec |-> Dec(0, Rep(9, 79), -18),
      rounding |-> "ROUND_DOWN"]}

\* getcontext(): the current context of thread t
GetContext(cur, t) == cur[t]

\* mutant: setcontext that sets the current context of every thread
SetContextProcessWide(cur, t, c) == [u \in DOMAIN cur |-> c]

\* setcontext(c) by thread t
SetContext(cur, t, c) == [cur EXCEPT ![t] = c]

\* mutant: the context is restored only when the body returns
ContextAfterExitNoFinally(frame) ==
    IF frame.outcome.raised # "" THEN GrtCtxId ELSE frame.initial

\* finally: setcontext(initial_context), on return and on raise alike
ContextAfterExit(frame) == frame.initial

\* the body of the call under the context ctx
RunCall(call, ctx) ==
    IF call.op = "grt_wei_to_decimal"
    THEN Returned(WeiToDecimalBody(call.wei, ctx))
    ELSE DecimalToWeiBody(call.dec, call.rounding, ctx)

Top(t) == frames[t][Len(frames[t])]
SetTop(t, f) == [frames EXCEPT ![t][Len(frames[t])] = f]

InitCtx ==
    /\ ctxStore = [c \in CtxIds |->
                     IF c = GrtCtxId THEN _GRT_DECIMAL_CONTEXT
                     ELSE [prec |-> 28, rounding |-> "ROUND_HALF_EVEN"]]
    /\ current = [t \in Threads |-> t]
    /\ frames = [t \in Threads |-> <<>>]
    /\ lastCall = NoValue
    \* the single caller and allocopt are not part of this specification
    /\ cAmbient = NoValue
    /\ cIn = NoValue
    /\ cRounding = "None"
    /\ cDec = NoValue
    /\ cOut = NoValue
    /\ cPhase = "idle"
    /\ pc = "idle"
    /\ stake = 0
    /\ frozenStake = 0
    /\ pinnedvec = <<>>
    /\ sigma = 0
    /\ optOut = NoValue
    /\ xs = <<>>
    /\ strategies = <<>>
    /\ res = NoValue
    /\ err = ""
    /\ optimizeCalls = 0

\* a computation of thread t outside the codec changes the settings of its
\* current context: getcontext().prec = ..., getcontext().rounding = ...
UserSetsContext(t, s) ==
    /\ frames[t] = <<>>
    /\ ctxStore[current[t]] # s
    /\ ctxStore' = [ctxStore EXCEPT ![current[t]] = s]
    /\ UNCHANGED <<current, frames, lastCall>>

\* thread t calls the codec: initial_context = getcontext()
CodecGetContext(t, call) ==
    /\ Len(frames[t]) < MaxDepth
    /\ IF frames[t] = <<>> THEN TRUE ELSE Top(t).pc = "body"
    /\ frames' = [frames EXCEPT ![t] = Append(@,
           [call |-> call, pc |-> "set",
            initial |-> GetContext(current, t),
            entryCtx |-> current[t],
            entrySettings |-> ctxStore[current[t]],
            outcome |-> NoValue,
            bodyPrec |-> 0])]
    /\ UNCHANGED <<ctxStore, current, lastCall>>

\* setcontext(_GRT_DECIMAL_CONTEXT)
CodecSetContext(t) ==
    /\ frames[t] # <<>>
    /\ Top(t).pc = "set"
    /\ current' = SetContext(current, t, GrtCtxId)
    /\ frames' = SetTop(t, [Top(t) EXCEPT !.pc = "body"])
    /\ UNCHANGED <<ctxStore, lastCall>>

\* the body of the with block, under the current context of the thread: it
\* returns or raises
CodecBody(t) ==
    /\ frames[t] # <<>>
    /\ Top(t).pc = "body"
    /\ frames' = SetTop(t, [Top(t) EXCEPT
           !.pc = "finally",
           !.outcome = RunCall(Top(t).call, ctxStore[GetContext(current, t)]),
           !.bodyPrec = ctxStore[GetContext(current, t)].prec])
    /\ UNCHANGED <<ctxStore, current, lastCall>>

\* finally: setcontext(initial_context); the call returns or the exception
\* propagates to the caller
CodecExit(t) ==
    /\ frames[t] # <<>>
    /\ Top(t).pc = "finally"
    /\ current' = SetContext(current, t, ContextAfterExit(Top(t)))
    /\ frames' = [frames EXCEPT ![t] = Take(@, Len(@) - 1)]
    /\ lastCall' = [thread |-> t, raised |-> Top(t).outcome.raised]
    /\ UNCHANGED ctxStore

NextCtx ==
    \/ \E t \in Threads, s \in UserSettings :
           UserSetsContext(t, s) /\ UNCHANGED <<codecVars, allocVars>>
    \/ \E t \in Threads, call \in CtxCalls :
           CodecGetContext(t, call) /\ UNCHANGED <<codecVars, allocVars>>
    \/ \E t \in Threads : CodecSetContext(t) /\ UNCHANGED <<codecVars, allocVars>>
    \/ \E t \in Threads : CodecBody(t) /\ UNCHANGED <<codecVars, allocVars>>
    \/ \E t \in Threads : CodecExit(t) /\ UNCHANGED <<codecVars, allocVars>>

SpecCtx == InitCtx /\ [][NextCtx]_vars

\* C2: when a codec call of a thread ends, by return or by raise, nested or
\* not, the current context of the thread is the context object that was
\* current when the call began, with the precision and rounding it had.
C2_ContextRestored ==
    [][\A t \in Threads :
          Len(frames'[t]) < Len(frames[t]) =>
              /\ current'[t] = Top(t).entryCtx
              /\ ctxStore'[current'[t]] = Top(t).entrySettings]_vars

\* a call that raised InvalidOperation has ended and the thread is back
\* under its own context, which it had set to 9 digits and ROUND_DOWN
C2_Witness ==
    \E t \in Threads :
        /\ frames[t] = <<>>
        /\ lastCall = [thread |-> t, raised |-> "InvalidOperation"]
        /\ current[t] = t
        /\ ctxStore[t] = [prec |-> 9, rounding |-> "ROUND_DOWN"]

\* C10: a step of a codec call of one thread changes neither the current
\* context of another thread that is outside the codec nor the settings of
\* that context; and the body of every codec call computes under a
\* precision of 78 digits.
C10_ThreadIsolation ==
    [][/\ \A t \in Threads :
             (/\ frames[t] = <<>> /\ frames'[t] = <<>>
              /\ \E u \in Threads \ {t} : frames'[u] # frames[u]) =>
                 /\ current'[t] = current[t]
                 /\ ctxStore'[current'[t]] = ctxStore[current[t]]
       /\ \A t \in Threads : \A i \in 1..Len(frames'[t]) :
             frames'[t][i].pc = "finally" => frames'[t][i].bodyPrec = 78]_vars

\* thread 2 is outside the codec under its own 9 digit context while
\* thread 1 is in the body of a codec call, under _GRT_DECIMAL_CONTEXT
C10_Witness ==
    /\ frames[2] = <<>>
    /\ current[2] = 2
    /\ ctxStore[2].prec = 9
    /\ frames[1] # <<>>
    /\ frames[1][1].pc = "finally"
    /\ current[1] = GrtCtxId

(***************************************************************************)
(* allocopt.py                                                             *)
(*                                                                         *)
(* The Julia collaborators (read, pinned, availablestake, frozen,          *)
(* optimize, ...) are not part of the repository: what they return is an   *)
(* input, drawn from small sets. GRT amounts are Float64 in Julia; the     *)
(* model keeps them exactly, as whole numbers of tenths of a wei, so that  *)
(* an amount need not be a whole number of wei.                            *)
(***************************************************************************)
\* the subgraphs of fs, in the order of the rows of xs
TargetSeq == <<"QmA", "QmB">>
Targets == {TargetSeq[i] : i \in 1..Len(TargetSeq)}

\* a Float64 that is NaN
NaN == -1

\* the bound on the number of candidates (columns of xs) optimize returns
MaxCands == 2

\* availablestake, frozen and pinned stake, in tenths of a wei
StakeInputs == {14, 20}
FrozenInputs == {0, 10}
PinnedInputs == {[k \in Targets |-> IF k = "QmA" THEN p ELSE 0] : p \in {0, 10}}

\* what optimize may return for one candidate: its column of xs, the number
\* of entries of the column that are not zero, and its profit (the sum of
\* its column of profitmatrix)
OptAmounts == {0, 7, NaN}
Profits == {1, 2}
OptColumns ==
    {[x |-> v, nonzeros |-> Cardinality({k \in Targets : v[k] # 0}), profit |-> p] :
        v \in [Targets -> OptAmounts], p \in Profits}
OptimizerOutputs ==
    UNION {[1..n -> OptColumns] : n \in 0..MaxCands}

\* the decimal context of the caller of allocopt
CallerContext == [prec |-> 28, rounding |-> "ROUND_HALF_EVEN"]

\* "num_reported_options": 1
num_reported_options == 1

\* Float64 addition
FAdd(a, b) == IF a = NaN \/ b = NaN THEN NaN ELSE a + b

\* sum of a vector over the targets
RECURSIVE SumFrom(_, _)
SumFrom(v, i) == IF i > Len(TargetSeq) THEN 0
                 ELSE FAdd(v[TargetSeq[i]], SumFrom(v, i + 1))
Sum(v) == SumFrom(v, 1)

\* sigma = availablestake(Val(:indexer), i) - frozen(a, config) - sigma_pinned
AvailableSigma(st, fr, pv) == st - fr - Sum(pv)

\* mutant: the stake check lets a budget of zero through
StakeAvailableOrZero(sg) == sg >= 0

\* @assert sigma > 0
StakeAvailable(sg) == sg > 0

\* mutant: a pinned target gets its pinned stake, whatever optimize returned
PinnedOverwrites(col, pv) ==
    [k \in Targets |-> IF pv[k] > 0 THEN pv[k] ELSE col[k]]

\* xs .= xs .+ pinnedvec, for one column
AddPinned(col, pv) == [k \in Targets |-> FAdd(col[k], pv[k])]

\* mutant: the budget check never fails
WithinBudgetUnchecked(x, sigmaMax) == TRUE

\* isnan(x) || x <= sigma_max, for one column sum
WithinBudget(x, sigmaMax) == x = NaN \/ x <= sigmaMax

\* groupunique(nonzeros): number of nonzeros -> the candidates that have it
GroupUnique(out) ==
    LET counts == {out[c].nonzeros : c \in DOMAIN out}
    IN  [n \in counts |-> {c \in DOMAIN out : out[c].nonzeros = n}]

\* bestprofitpernz(ixs, profitmatrix): the profit and the index of a
\* candidate of the group of the highest profit
BestProfitPerNz(ixs, out) ==
    {[profit |-> out[c].profit, index |-> c] :
        c \in {b \in ixs : \A o \in ixs : out[b].profit >= out[o].profit}}

\* sortprofits!(popts): popts by descending profit; candidates of equal
\* profit come in either order (the groups are the values of a Dict)
SortProfits(popts) ==
    {q \in [1..Cardinality(popts) -> popts] :
        /\ \A i, j \in DOMAIN q : i # j => q[i] # q[j]
        /\ \A i, j \in DOMAIN q : i < j => q[i].profit >= q[j].profit}

\* mutant: the last nreport strategies are reported
ReportedLast(popts, nreport) == SubSeq(popts, Len(popts) - nreport + 1, Len(popts))

\* popts[1:nreport]
Reported(popts, nreport) == SubSeq(popts, 1, nreport)

\* strategydict(p, xs, nonzeros, fs, profitmatrix): the allocations of
\* candidate p.index, one per subgraph of fs, each with the subgraph's
\* deploymentID and its amount in column p.index of xs, which is what
\* allocopt reads back (e["deploymentID"], e["allocationAmount"])
StrategyDict(p, x, out) ==
    [profit |-> p.profit,
     index |-> p.index,
     nonzeros |-> out[p.index].nonzeros,
     allocations |-> [i \in 1..Len(TargetSeq) |->
                        [deploymentID |-> TargetSeq[i],
                         allocationAmount |-> x[p.index][TargetSeq[i]]]]]

\* Decimal(x) for a Float64 x kept in tenths of a wei
DecimalOfAmount(x) ==
    IF x = NaN THEN DecNaN ELSE Dec(0, ToDigits(x), -_GRT_DECIMALS - 1)

\* grt_decimal_to_wei(e["allocationAmount"]) for every allocation e, in order
RECURSIVE ConvertedFrom(_, _)
ConvertedFrom(allocs, i) ==
    IF i > Len(allocs) THEN <<>>
    ELSE <<grt_decimal_to_wei(DecimalOfAmount(allocs[i].allocationAmount),
                              "None", CallerContext)>>
         \o ConvertedFrom(allocs, i + 1)
Converted(allocs) == ConvertedFrom(allocs, 1)

InitAlloc ==
    /\ pc = "start"
    /\ stake \in StakeInputs
    /\ frozenStake \in FrozenInputs
    /\ pinnedvec \in PinnedInputs
    /\ sigma = 0
    /\ optOut = NoValue
    /\ xs = <<>>
    /\ strategies = <<>>
    /\ res = NoValue
    /\ err = ""
    /\ optimizeCalls = 0
    \* the codec callers are not part of this specification
    /\ cAmbient = NoValue
    /\ cIn = NoValue
    /\ cRounding = "None"
    /\ cDec = NoValue
    /\ cOut = NoValue
    /\ cPhase = "idle"
    /\ ctxStore = <<>>
    /\ current = <<>>
    /\ frames = <<>>
    /\ lastCall = NoValue

\* opt_fun up to the stake check: the budget left once the frozen and the
\* pinned stake are taken off, and the assertion that some is left
CheckStake ==
    /\ pc = "start"
    /\ sigma' = AvailableSigma(stake, frozenStake, pinnedvec)
    /\ IF StakeAvailable(sigma')
       THEN pc' = "optimize" /\ err' = ""
       ELSE pc' = "failed" /\ err' = "InsufficientStake"
    /\ UNCHANGED <<stake, frozenStake, pinnedvec, optOut, xs, strategies, res,
                   optimizeCalls>>

\* optimize returns its candidates
OptimizeReturns ==
    /\ pc = "optimize"
    /\ optimizeCalls' = optimizeCalls + 1
    /\ optOut' \in OptimizerOutputs
    /\ pc' = "solved"
    /\ UNCHANGED <<stake, frozenStake, pinnedvec, sigma, xs, strategies, res,
                   err>>

\* optimize does not converge: its error is not caught
OptimizeDiverges ==
    /\ pc = "optimize"
    /\ optimizeCalls' = optimizeCalls + 1
    /\ pc' = "failed"
    /\ err' = "OptimizationDiverged"
    /\ UNCHANGED <<stake, frozenStake, pinnedvec, sigma, optOut, xs,
                   strategies, res>>

\* the rest of opt_fun: the pinned stake is added, every column is checked
\* against the budget, and the strategies are reported
PostSolve ==
    /\ pc = "solved"
    /\ xs' = [c \in DOMAIN optOut |-> AddPinned(optOut[c].x, pinnedvec)]
    /\ LET sigmaMax == sigma + Sum(pinnedvec)
       IN  IF \E c \in DOMAIN optOut : ~WithinBudget(Sum(xs'[c]), sigmaMax)
           THEN /\ pc' = "failed"
                /\ err' = "BudgetExceeded"
                /\ strategies' = strategies
           ELSE /\ pc' = "returned"
                /\ err' = ""
                /\ \E popts \in SortProfits(
                          UNION {BestProfitPerNz(GroupUnique(optOut)[n], optOut) :
                                     n \in DOMAIN GroupUnique(optOut)}) :
                       LET nreport == Min(num_reported_options, Len(popts))
                           rep == Reported(popts, nreport)
                       IN  strategies' =
                               [i \in DOMAIN rep |-> StrategyDict(rep[i], xs', optOut)]
    /\ UNCHANGED <<stake, frozenStake, pinnedvec, sigma, optOut, res,
                   optimizeCalls>>

\* allocopt after opt_fun: the assertion that one strategy came back, and
\* the mapping deploymentID -> wei; an amount that does not convert raises
ConvertResult ==
    /\ pc = "returned"
    /\ IF Len(strategies) # 1
       THEN pc' = "failed" /\ err' = "AssertionError" /\ res' = res
       ELSE \E allocs \in {strategies[1].allocations} :
            \E conv \in {Converted(allocs)} :
                IF \E i \in DOMAIN conv : conv[i].raised # ""
                THEN /\ pc' = "failed"
                     /\ err' = conv[CHOOSE i \in DOMAIN conv :
                                      /\ conv[i].raised # ""
                                      /\ \A j \in 1..(i - 1) : conv[j].raised = ""
                                   ].raised
                     /\ res' = res
                ELSE /\ pc' = "done"
                     /\ err' = ""
                     /\ res' = [k \in {allocs[i].deploymentID : i \in DOMAIN allocs} |->
                                  LET i == CHOOSE j \in DOMAIN allocs :
                                               /\ allocs[j].deploymentID = k
                                               /\ \A m \in DOMAIN allocs :
                                                      allocs[m].deploymentID = k => m <= j
                                  IN  FromDigits(conv[i].val.digits)]
    /\ UNCHANGED <<stake, frozenStake, pinnedvec, sigma, optOut, xs, strategies,
                   optimizeCalls>>

NextAlloc ==
    \/ CheckStake /\ UNCHANGED <<codecVars, ctxVars>>
    \/ OptimizeReturns /\ UNCHANGED <<codecVars, ctxVars>>
    \/ OptimizeDiverges /\ UNCHANGED <<codecVars, ctxVars>>
    \/ PostSolve /\ UNCHANGED <<codecVars, ctxVars>>
    \/ ConvertResult /\ UNCHANGED <<codecVars, ctxVars>>

SpecAlloc == InitAlloc /\ [][NextAlloc]_vars

(***************************************************************************)
(* Claims about allocopt                                                   *)
(***************************************************************************)
\* the amounts of the mapping, summed, in wei
RECURSIVE SumRes(_, _)
SumRes(m, i) == IF i > Len(TargetSeq) THEN 0
                ELSE (IF TargetSeq[i] \in DOMAIN m THEN m[TargetSeq[i]] ELSE 0)
                     + SumRes(m, i + 1)

\* n tenths of a wei rounded half-even to whole wei
WeiHalfEven(n) ==
    LET q == n \div 10
        r == n % 10
    IN  IF r > 5 \/ (r = 5 /\ q % 2 = 1) THEN q + 1 ELSE q

\* the candidate allocopt reported
ReportedIndex == strategies[1].index

\* C5 (as claimed): the amounts of every mapping allocopt returns sum to at
\* most the available stake plus the pinned stake (the indexer stake less
\* the frozen stake), in base units.
C5_BudgetInBaseUnits ==
    pc = "done" => 10 * SumRes(res, 1) <= sigma + Sum(pinnedvec)

C7_StakeCheckFirst ==
    /\ (pc = "optimize" \/ optimizeCalls > 0) =>
           stake - frozenStake - Sum(pinnedvec) > 0
    /\ (pc # "start" /\ stake - frozenStake - Sum(pinnedvec) <= 0) =>
           /\ pc = "failed"
           /\ err = "InsufficientStake"
           /\ optimizeCalls = 0
           /\ optOut = NoValue

\* the pinned and the frozen stake take the whole stake: the call has failed
\* before optimize
C7_Witness ==
    /\ pc = "failed"
    /\ err = "InsufficientStake"
    /\ stake = 20 /\ frozenStake = 10 /\ pinnedvec["QmA"] = 10
    /\ optimizeCalls = 0

\* C8: a mapping is returned only when every validation has passed (stake
\* available, optimize returned, every column within budget or NaN, one
\* strategy) and then holds every allocation of the strategy; a call that
\* fails returns no mapping; optimize is invoked at most once and its
\* failure ends the call.
C8_NoPartialMapping ==
    /\ pc # "done" => res = NoValue
    /\ pc = "done" =>
           /\ err = ""
           /\ stake - frozenStake - Sum(pinnedvec) > 0
           /\ optimizeCalls = 1
           /\ \A c \in DOMAIN xs :
                  Sum(xs[c]) = NaN \/ Sum(xs[c]) <= stake - frozenStake
           /\ Len(strategies) = 1
           /\ DOMAIN res = Targets
    /\ pc = "failed" => err # ""
    /\ err # "" => pc = "failed"
    /\ optimizeCalls <= 1

\* the first amount of the strategy converts and the second is NaN: the
\* call has failed with ValueError and no mapping
C8_Witness ==
    /\ pc = "failed"
    /\ err = "ValueError"
    /\ strategies[1].allocations[1].allocationAmount = 7
    /\ strategies[1].allocations[2].allocationAmount = NaN
    /\ res = NoValue

\* C9: opt_fun reports min(1, number of groups) strategies; the one it
\* reports has the profit of its candidate, a profit >= that of every
\* candidate with the same number of nonzeros and >= that of the best
\* candidate of every other group.
C9_BestStrategy ==
    pc = "returned" =>
        /\ Len(strategies) =
               Min(1, Cardinality({optOut[c].nonzeros : c \in DOMAIN optOut}))
        /\ \A i \in DOMAIN strategies :
               /\ strategies[i].index \in DOMAIN optOut
               /\ strategies[i].profit = optOut[strategies[i].index].profit
               /\ \A c \in DOMAIN optOut :
                      optOut[c].nonzeros = optOut[strategies[i].index].nonzeros =>
                          strategies[i].profit >= optOut[c].profit
               /\ \A c \in DOMAIN optOut :
                      optOut[c].nonzeros # optOut[strategies[i].index].nonzeros =>
                          strategies[i].profit >= optOut[c].profit

\* two candidates in two groups: the one of profit 2 is reported, the one of
\* profit 1 is not
C9_Witness ==
    /\ pc = "returned"
    /\ Len(optOut) = 2
    /\ optOut[1].nonzeros # optOut[2].nonzeros
    /\ optOut[1].profit = 1
    /\ optOut[2].profit = 2
    /\ Len(strategies) = 1
    /\ strategies[1].index = 2
====
